---- MODULE Spec2Model ----
(***************************************************************************)
(* A model of zmon-cli (src/zmon_cli/main.py): configuration loading and   *)
(* credential resolution (get_config_data, validate_config,                *)
(* query_password), the HTTP request wrapper (request) with its retry on   *)
(* 401, the create/update commands that call it, the loop of "entities    *)
(* push", and dump_yaml: its key ordering, its treatment of the literal    *)
(* fields, and the text yaml.dump writes and yaml.safe_load reads back for *)
(* each value.                                                             *)
(*                                                                         *)
(* A Python dict is a TLA+ function whose DOMAIN is the set of its keys.   *)
(* Python strings that are compared for order or taken apart (YAML keys    *)
(* and values) are sequences of code points.                               *)
(*                                                                         *)
(* Left out, as nothing modelled here reads them: the 'verify' key of the  *)
(* config, the request bodies (and the last_modified_by and status         *)
(* defaults put into them), a missing USER environment variable at the     *)
(* username prompt, and the -c option (get_config_data always uses the     *)
(* default file).  A config file that does not parse is a file without     *)
(* url: both end in validate_config raising.                               *)
(***************************************************************************)
EXTENDS Integers, Sequences, FiniteSets, TLC

\* ------------------------------------------------------------------ bounds
\* Largest number of entities in the list given to "entities push".
MaxEntities == 2
\* request() calls itself on a 401; the model stops offering a 401 once this
\* many attempts of one request() call have been made.
MaxAttempts == 3
\* Process invocations of the CLI in one behaviour.
MaxInvocations == 2
\* Largest number of top-level keys of a document handed to dump_yaml.
MaxKeys == 3
\* Longest string value of a document handed to dump_yaml.
MaxLen == 4

\* ------------------------------------------------------------- value sets
None == "None"
Users == {"alice"}
Passwords == {"pw1", "pw2"}
Urls == {"https://a", "https://b"}
Tokens == {"tok"}
\* What zign.api.get_token can hand back; "ZignError" stands for its raising.
ZignToken == "zigntok"
ZignError == "ZignError"
ZignOutcomes == {ZignToken, ZignError}
\* Status codes the server may answer with: 1xx, 2xx, 3xx, 401, 4xx and 5xx.
Statuses == {100, 200, 204, 304, 401, 403, 500}

\* --------------------------------------------------------- dict operations
EmptyDict == [k \in {} |-> None]
Has(d, k) == k \in DOMAIN d
Put(d, k, v) == [x \in (DOMAIN d) \cup {k} |-> IF x = k THEN v ELSE d[x]]
Del(d, k) == [x \in (DOMAIN d) \ {k} |-> d[x]]

\* The config file on disk: absent, or a YAML mapping.
NoFile == [exists |-> FALSE, data |-> EmptyDict]
FileOf(d) == [exists |-> TRUE, data |-> d]

\* -------------------------------------------------------------- variables
VARIABLES
    file,        \* the config file ~/.zmon-cli.yaml
    writable,    \* whether open(fn, mode='w') succeeds
    keyring,     \* the secret store: user -> password or None (service "zmon-cli")
    pc,          \* where the current invocation is: cli, command, request, finish, done
    inv,         \* number of the current process invocation
    cmd,         \* the command being run and the document it was given
    req,         \* the request() call in progress (or the last one)
    lastLoad,    \* what the most recent get_config_data() call did
    count,       \* per-invocation counts of file reads/writes and transport calls
    outcome,     \* how the invocation ended
    push,        \* the loop of "entities push": the list, the place in it, what was done
    yamlDoc,     \* the document handed to dump_yaml
    yamlOut,     \* the top-level keys of its output, in emitted order
    yamlDone,    \* whether dump_yaml has run
    yamlVal,     \* the document's values: key -> string
    yamlData,    \* the document after dump_yaml's loop over the literal fields
    yamlText,    \* the scalar yaml.dump writes for each key, as text
    yamlLoaded,  \* whether the text has been read back
    yamlBack     \* what reading the text back gives: key -> string

cliVars == <<file, writable, keyring, pc, inv, cmd, req, lastLoad, count, outcome, push>>
yamlVars == <<yamlDoc, yamlOut, yamlDone, yamlVal, yamlData, yamlText, yamlLoaded, yamlBack>>
vars == <<file, writable, keyring, pc, inv, cmd, req, lastLoad, count, outcome, push,
          yamlDoc, yamlOut, yamlDone, yamlVal, yamlData, yamlText, yamlLoaded, yamlBack>>

\* ------------------------------------------------------------ credentials
\* query_password: prompt (the user types pw), store it in the keyring, return it.
query_password(user, kr, pw) ==
    [pw |-> pw, keyring |-> [kr EXCEPT ![user] = pw]]

\* validate_config without the zign fallback: no token and no user is an error.
validate_config_nozign(data, kr, pw, zign) ==
    IF (~Has(data, "url")) \/ data["url"] = ""
    THEN [ok |-> FALSE, data |-> data, keyring |-> kr,
          krReads |-> 0, krWrites |-> 0, prompts |-> 0, zign |-> 0]
    ELSE IF Has(data, "user")
    THEN LET stored == kr[data["user"]]
         IN  IF stored = None
             THEN LET q == query_password(data["user"], kr, pw)
                  IN  [ok |-> TRUE, data |-> Put(data, "password", q.pw), keyring |-> q.keyring,
                       krReads |-> 1, krWrites |-> 1, prompts |-> 1, zign |-> 0]
             ELSE [ok |-> TRUE, data |-> Put(data, "password", stored), keyring |-> kr,
                   krReads |-> 1, krWrites |-> 0, prompts |-> 0, zign |-> 0]
    ELSE IF ~Has(data, "token")
    THEN [ok |-> FALSE, data |-> data, keyring |-> kr,
          krReads |-> 0, krWrites |-> 0, prompts |-> 0, zign |-> 0]
    ELSE [ok |-> TRUE, data |-> data, keyring |-> kr,
          krReads |-> 0, krWrites |-> 0, prompts |-> 0, zign |-> 0]

\* validate_config(data): raises when url is missing or empty; with a user it
\* reads the password from the keyring and prompts when there is none; with
\* neither user nor token it asks zign for a token.  pw is what the user types
\* if prompted, zign what zign.api.get_token does if called.
validate_config(data, kr, pw, zign) ==
    IF (~Has(data, "url")) \/ data["url"] = ""
    THEN [ok |-> FALSE, data |-> data, keyring |-> kr,
          krReads |-> 0, krWrites |-> 0, prompts |-> 0, zign |-> 0]
    ELSE IF Has(data, "user")
    THEN LET stored == kr[data["user"]]
         IN  IF stored = None
             THEN LET q == query_password(data["user"], kr, pw)
                  IN  [ok |-> TRUE, data |-> Put(data, "password", q.pw), keyring |-> q.keyring,
                       krReads |-> 1, krWrites |-> 1, prompts |-> 1, zign |-> 0]
             ELSE [ok |-> TRUE, data |-> Put(data, "password", stored), keyring |-> kr,
                   krReads |-> 1, krWrites |-> 0, prompts |-> 0, zign |-> 0]
    ELSE IF ~Has(data, "token")
    THEN IF zign = ZignError
         THEN [ok |-> FALSE, data |-> data, keyring |-> kr,
               krReads |-> 0, krWrites |-> 0, prompts |-> 0, zign |-> 1]
         ELSE [ok |-> TRUE, data |-> Put(data, "token", zign), keyring |-> kr,
               krReads |-> 0, krWrites |-> 0, prompts |-> 0, zign |-> 1]
    ELSE [ok |-> TRUE, data |-> data, keyring |-> kr,
          krReads |-> 0, krWrites |-> 0, prompts |-> 0, zign |-> 0]

\* The first half of get_config_data: read the file (migrating a password out
\* of it) or create it from prompts.  Every exception is caught and printed, so
\* this part always hands some data on to validate_config.
\*   [data, file, keyring, reads, writes, krWrites]
load_file_alwayswrite(f, kr, w, url, user) ==
    IF f.exists
    THEN IF Has(f.data, "password") /\ Has(f.data, "user")
         THEN LET d == Del(f.data, "password")
              IN  [data |-> d, file |-> IF w THEN FileOf(d) ELSE f,
                   keyring |-> [kr EXCEPT ![f.data["user"]] = f.data["password"]],
                   reads |-> 1, writes |-> IF w THEN 1 ELSE 0, krWrites |-> 1]
         ELSE [data |-> f.data, file |-> IF w THEN FileOf(f.data) ELSE f, keyring |-> kr,
               reads |-> 1, writes |-> IF w THEN 1 ELSE 0, krWrites |-> 0]
    ELSE LET d == Put(Put(EmptyDict, "url", url), "user", user)
         IN  [data |-> d, file |-> IF w THEN FileOf(d) ELSE f, keyring |-> kr,
              reads |-> 0, writes |-> IF w THEN 1 ELSE 0, krWrites |-> 0]

\* The same, leaving the password in the data and in the file.
load_file_nomigrate(f, kr, w, url, user) ==
    IF f.exists
    THEN [data |-> f.data, file |-> f, keyring |-> kr,
          reads |-> 1, writes |-> 0, krWrites |-> 0]
    ELSE LET d == Put(Put(EmptyDict, "url", url), "user", user)
         IN  [data |-> d, file |-> IF w THEN FileOf(d) ELSE f, keyring |-> kr,
              reads |-> 0, writes |-> IF w THEN 1 ELSE 0, krWrites |-> 0]

load_file(f, kr, w, url, user) ==
    IF f.exists
    THEN IF Has(f.data, "password")
         THEN IF Has(f.data, "user")
              THEN \* keyring.set_password, del data['password'], rewrite the file;
                   \* a failing open() is caught after the first two have happened
                   LET d == Del(f.data, "password")
                   IN  [data |-> d, file |-> IF w THEN FileOf(d) ELSE f,
                        keyring |-> [kr EXCEPT ![f.data["user"]] = f.data["password"]],
                        reads |-> 1, writes |-> IF w THEN 1 ELSE 0, krWrites |-> 1]
              ELSE \* data['user'] raises KeyError before anything is changed
                   [data |-> f.data, file |-> f, keyring |-> kr,
                    reads |-> 1, writes |-> 0, krWrites |-> 0]
         ELSE [data |-> f.data, file |-> f, keyring |-> kr,
               reads |-> 1, writes |-> 0, krWrites |-> 0]
    ELSE \* no file: prompt for url and user, write the new file
         LET d == Put(Put(EmptyDict, "url", url), "user", user)
         IN  [data |-> d, file |-> IF w THEN FileOf(d) ELSE f, keyring |-> kr,
              reads |-> 0, writes |-> IF w THEN 1 ELSE 0, krWrites |-> 0]

\* get_config_data(): load_file, then validate_config on whatever it produced.
\* in = [url, user, pw, zign] are the answers the environment gives if asked.
get_config_data(f, kr, w, in) ==
    LET l == load_file(f, kr, w, in.url, in.user)
        v == validate_config(l.data, l.keyring, in.pw, in.zign)
    IN  [ok |-> v.ok, data |-> v.data, file |-> l.file, keyring |-> v.keyring,
         pre |-> f, preKr |-> kr, canWrite |-> w, answers |-> in,
         reads |-> l.reads, writes |-> l.writes,
         krReads |-> v.krReads, krWrites |-> l.krWrites + v.krWrites,
         prompts |-> v.prompts, zign |-> v.zign]

\* The answers the environment can give to the questions get_config_data asks
\* of it, from file f and keyring kr: a question that is not asked has no
\* answer to choose (its field holds a fixed value that is never read).
Asked(f, kr) ==
    LET d == load_file(f, kr, TRUE, "https://a", "alice").data
        valid == Has(d, "url") /\ d["url"] # ""
    IN  [url : IF f.exists THEN {"https://a"} ELSE Urls,
         user : IF f.exists THEN {"alice"} ELSE Users,
         pw : IF f.exists /\ ~(valid /\ Has(d, "user")) THEN {"pw1"} ELSE Passwords,
         zign : IF valid /\ ~Has(d, "user") /\ ~Has(d, "token") THEN ZignOutcomes
                ELSE {ZignToken}]

\* Record a get_config_data() result as the latest load, remembering what the
\* load before it started from and whether that one wrote the file.
Loaded(l) ==
    [ok |-> l.ok, data |-> l.data, pre |-> l.pre, preKr |-> l.preKr, canWrite |-> l.canWrite,
     post |-> l.file, postKr |-> l.keyring, answers |-> l.answers,
     reads |-> l.reads, writes |-> l.writes, krReads |-> l.krReads, krWrites |-> l.krWrites,
     prompts |-> l.prompts, zign |-> l.zign,
     n |-> IF lastLoad.n < 2 THEN lastLoad.n + 1 ELSE 2,
     prevPre |-> lastLoad.pre, prevWrites |-> lastLoad.writes]

NoLoad ==
    [ok |-> FALSE, data |-> EmptyDict, pre |-> NoFile, preKr |-> [u \in Users |-> None],
     canWrite |-> FALSE, post |-> NoFile, postKr |-> [u \in Users |-> None],
     answers |-> [url |-> "", user |-> "", pw |-> "", zign |-> ""],
     reads |-> 0, writes |-> 0, krReads |-> 0, krWrites |-> 0,
     prompts |-> 0, zign |-> 0, n |-> 0, prevPre |-> NoFile, prevWrites |-> 0]

\* ---------------------------------------------------------------- request
\* response.raise_for_status(): requests raises HTTPError for 4xx and 5xx only.
raise_for_status_5xx(s) == 500 <= s /\ s < 600
raise_for_status(s) == 400 <= s /\ s < 600

\* The credential request() attaches: the bearer token if the config has one,
\* HTTP basic auth otherwise.
auth(data) ==
    IF Has(data, "token")
    THEN <<"Bearer", data["token"]>>
    ELSE <<"Basic", data["user"], data["password"]>>

NoRequest ==
    [state |-> "none", method |-> "", path |-> "", attempts |-> 0, statuses |-> <<>>,
     sent |-> <<>>, resolutions |-> 0, reprompts |-> 0, status |-> 0, cfg |-> NoFile,
     entered |-> <<>>]
NewRequest(method, path) ==
    [NoRequest EXCEPT !.state = "running", !.method = method, !.path = path, !.cfg = file]

\* request() with the retry's response dropped ("request(...)" in place of
\* "response = request(...)"): the calling frame goes on with its own 401.
request_dropretry(r, l, s, pw2) ==
    IF ~l.ok
    THEN [req |-> [r EXCEPT !.state = "exception", !.attempts = @ + 1, !.resolutions = @ + 1],
          keyring |-> l.keyring, sent |-> 0]
    ELSE LET r1 == [r EXCEPT !.attempts = @ + 1, !.resolutions = @ + 1,
                             !.statuses = Append(@, s),
                             !.sent = Append(@, [method |-> r.method, url |-> l.data["url"],
                                                 path |-> r.path, auth |-> auth(l.data)])]
         IN  IF s = 401
             THEN IF Has(l.data, "user")
                  THEN LET q == query_password(l.data["user"], l.keyring, pw2)
                       IN  [req |-> [r1 EXCEPT !.reprompts = @ + 1,
                                                !.entered = Append(@, q.pw)],
                            keyring |-> q.keyring, sent |-> 1]
                  ELSE [req |-> [r1 EXCEPT !.state = "exception"],
                        keyring |-> l.keyring, sent |-> 1]
             ELSE IF raise_for_status(s) \/ r.attempts > 0
             THEN [req |-> [r1 EXCEPT !.state = "http_error",
                                      !.status = IF raise_for_status(s) THEN s ELSE 401],
                   keyring |-> l.keyring, sent |-> 1]
             ELSE [req |-> [r1 EXCEPT !.state = "returned", !.status = s],
                   keyring |-> l.keyring, sent |-> 1]

\* One run of the body of request(): resolve the config, send, look at the
\* status.  A 401 prompts for a new password and calls request() again (the
\* next RequestAttempt); anything else goes through raise_for_status in this
\* frame and then in every calling frame, which see the same response.
\*   s: the server's answer; in: answers to get_config_data's questions;
\*   pw2: what the user types at the re-prompt.
request(r, l, s, pw2) ==
    IF ~l.ok
    THEN [req |-> [r EXCEPT !.state = "exception", !.attempts = @ + 1, !.resolutions = @ + 1],
          keyring |-> l.keyring, sent |-> 0]
    ELSE LET r1 == [r EXCEPT !.attempts = @ + 1, !.resolutions = @ + 1,
                             !.statuses = Append(@, s),
                             !.sent = Append(@, [method |-> r.method, url |-> l.data["url"],
                                                 path |-> r.path, auth |-> auth(l.data)])]
         IN  IF s = 401
             THEN IF Has(l.data, "user")
                  THEN LET q == query_password(l.data["user"], l.keyring, pw2)
                       IN  [req |-> [r1 EXCEPT !.reprompts = @ + 1,
                                                !.entered = Append(@, q.pw)],
                            keyring |-> q.keyring, sent |-> 1]
                  ELSE \* data['user'] raises KeyError
                       [req |-> [r1 EXCEPT !.state = "exception"],
                        keyring |-> l.keyring, sent |-> 1]
             ELSE IF raise_for_status(s)
             THEN [req |-> [r1 EXCEPT !.state = "http_error", !.status = s],
                   keyring |-> l.keyring, sent |-> 1]
             ELSE [req |-> [r1 EXCEPT !.state = "returned", !.status = s],
                   keyring |-> l.keyring, sent |-> 1]

RequestAttempt ==
    /\ pc = "request"
    /\ \E s \in Statuses, in \in Asked(file, keyring) :
      \E pw2 \in IF s = 401 THEN Passwords ELSE {"pw1"} :
        /\ (s = 401) => req.attempts + 1 < MaxAttempts
        /\ LET l == get_config_data(file, keyring, writable, in)
               x == request(req, l, s, pw2)
           IN  /\ req' = x.req
               /\ file' = l.file
               /\ keyring' = x.keyring
               /\ lastLoad' = Loaded(l)
               /\ count' = [count EXCEPT !.reads = @ + l.reads, !.writes = @ + l.writes,
                                         !.transport = @ + x.sent]
               /\ pc' = IF x.req.state = "running" THEN "request" ELSE "finish"
    /\ UNCHANGED <<writable, inv, cmd, outcome, push, yamlVars>>

\* --------------------------------------------------------------- commands
\* The documents (parsed YAML files) given to the create/update commands, as
\* far as the commands look at them: which of these keys are present, and
\* whether owning_team is the empty string.
DocKeys == {"id", "check_definition_id", "owning_team"}
DocValue(k) == IF k = "owning_team" THEN {"", "team"} ELSE {"1"}
Docs == UNION { {d \in [K -> {"", "team", "1"}] : \A k \in K : d[k] \in DocValue(k)} :
                K \in SUBSET DocKeys }

NoCommand == [name |-> "", doc |-> EmptyDict]

\* The required-field checks of the three commands: the error each reports,
\* or "" when the document passes.
missing_field_none(name, doc) == ""
missing_field(name, doc) ==
    IF name = "create_alert_definition"
    THEN IF ~Has(doc, "check_definition_id") THEN "check_definition_id missing" ELSE ""
    ELSE IF name = "update_alert_definition"
    THEN IF ~Has(doc, "id") THEN "id missing"
         ELSE IF ~Has(doc, "check_definition_id") THEN "check_definition_id missing"
         ELSE ""
    ELSE IF name = "update"
    THEN IF (~Has(doc, "owning_team")) \/ doc["owning_team"] = "" THEN "owning_team not set" ELSE ""
    ELSE ""

\* cli(): the group callback reads the config file, if there is one, into ctx.obj.
cli ==
    /\ pc = "cli"
    /\ count' = [count EXCEPT !.reads = @ + (IF file.exists THEN 1 ELSE 0)]
    /\ pc' = "command"
    /\ UNCHANGED <<file, writable, keyring, inv, cmd, req, lastLoad, outcome, push, yamlVars>>

\* The common shape of create_alert_definition, update_alert_definition and
\* update (check-definitions): get_config_data(), the required-field check,
\* then the POST or PUT.
Command(name, method, path) ==
    /\ pc = "command"
    /\ \E doc \in Docs, in \in Asked(file, keyring) :
        LET l == get_config_data(file, keyring, writable, in)
            m == missing_field(name, doc)
        IN  /\ cmd' = [name |-> name, doc |-> doc]
            /\ file' = l.file
            /\ keyring' = l.keyring
            /\ lastLoad' = Loaded(l)
            /\ IF ~l.ok
               THEN /\ pc' = "done"
                    /\ outcome' = "exception"
                    /\ req' = req
                    /\ count' = [count EXCEPT !.reads = @ + l.reads, !.writes = @ + l.writes]
               ELSE IF m # ""
               THEN /\ pc' = "done"
                    /\ outcome' = "reported"
                    /\ req' = req
                    /\ count' = [count EXCEPT !.reads = @ + l.reads, !.writes = @ + l.writes,
                                              !.reports = @ + 1]
               ELSE /\ pc' = "request"
                    /\ outcome' = outcome
                    /\ req' = [NewRequest(method, path) EXCEPT !.cfg = l.file]
                    /\ count' = [count EXCEPT !.reads = @ + l.reads, !.writes = @ + l.writes]
    /\ UNCHANGED <<writable, inv, push, yamlVars>>

create_alert_definition == Command("create_alert_definition", "POST", "/alert-definitions")
update_alert_definition == Command("update_alert_definition", "PUT", "/alert-definitions/id")
update == Command("update", "POST", "/check-definitions")

\* status: one GET, no document and no get_config_data() of its own.
status ==
    /\ pc = "command"
    /\ cmd' = [name |-> "status", doc |-> EmptyDict]
    /\ req' = NewRequest("GET", "/status")
    /\ pc' = "request"
    /\ UNCHANGED <<file, writable, keyring, inv, lastLoad, count, outcome, push, yamlVars>>

\* --------------------------------------------------------- entities push
\* An entity of the list given to "entities push", as far as the command
\* looks at it: whether it has an 'id' key, and whether json.dumps accepts it
\* (a YAML file may hold values, a date for one, that JSON cannot carry).
Entities == [hasId : BOOLEAN, jsonable : BOOLEAN]
EntityLists == UNION { [1..n -> Entities] : n \in 0..MaxEntities }

NoPush == [entities |-> <<>>, i |-> 0, puts |-> <<>>, reports |-> <<>>]

\* push_entity up to the loop: the argument is parsed, and a document that
\* is not a list becomes a list of one.
push_entity ==
    /\ pc = "command"
    /\ \E es \in EntityLists :
        push' = [NoPush EXCEPT !.entities = es, !.i = 1]
    /\ cmd' = [name |-> "push_entity", doc |-> EmptyDict]
    /\ pc' = "push"
    /\ UNCHANGED <<file, writable, keyring, inv, req, lastLoad, count, outcome, yamlVars>>

\* One turn of "for e in data" up to the put: action(...format(e['id']))
\* stands before the try, so a KeyError there leaves the command; inside the
\* try, json.dumps(e) and then put('/entities/', entity).
PushNext ==
    /\ pc = "push"
    /\ IF push.i > Len(push.entities)
       THEN /\ pc' = "done"
            /\ outcome' = "ok"
            /\ UNCHANGED <<push, req>>
       ELSE IF ~push.entities[push.i].hasId
       THEN /\ pc' = "done"
            /\ outcome' = "exception"
            /\ UNCHANGED <<push, req>>
       ELSE IF ~push.entities[push.i].jsonable
       THEN /\ pc' = "push"
            /\ push' = [push EXCEPT !.reports = Append(@, <<push.i, "failed">>), !.i = @ + 1]
            /\ UNCHANGED <<outcome, req>>
       ELSE /\ pc' = "request"
            /\ push' = [push EXCEPT !.puts = Append(@, push.i)]
            /\ req' = NewRequest("PUT", "/entities/")
            /\ UNCHANGED outcome
    /\ UNCHANGED <<file, writable, keyring, inv, cmd, lastLoad, count, yamlVars>>

\* The rest of the turn, after put() has returned or raised: ok() for a 200,
\* error() for any other returned status, and the bare except's
\* error("failed") for whatever put() raised.
PushResult ==
    /\ pc = "finish"
    /\ cmd.name = "push_entity"
    /\ LET said == IF req.state = "returned"
                   THEN IF req.status = 200 THEN "ok" ELSE "error"
                   ELSE "failed"
       IN  push' = [push EXCEPT !.reports = Append(@, <<push.i, said>>), !.i = @ + 1]
    /\ pc' = "push"
    /\ UNCHANGED <<file, writable, keyring, inv, cmd, req, lastLoad, count, outcome, yamlVars>>

\* What follows request() in the command, and main()'s handler around it: an
\* HTTPError is caught and printed by main(), any other exception ends the
\* process; a returned response is reported, for the create/update commands
\* with a link built from another get_config_data() call.
Finish ==
    /\ pc = "finish"
    /\ pc' = "done"
    /\ IF req.state = "returned" /\ cmd.name # "status"
       THEN \E in \in Asked(file, keyring) :
            LET l == get_config_data(file, keyring, writable, in)
            IN  /\ file' = l.file
                /\ keyring' = l.keyring
                /\ lastLoad' = Loaded(l)
                /\ count' = [count EXCEPT !.reads = @ + l.reads, !.writes = @ + l.writes]
                /\ outcome' = IF ~l.ok THEN "exception"
                              ELSE IF req.status # 200 THEN "error" ELSE "ok"
       ELSE /\ outcome' = IF req.state = "returned" THEN "ok" ELSE req.state
            /\ UNCHANGED <<file, keyring, lastLoad, count>>
    /\ UNCHANGED <<writable, inv, cmd, req, push, yamlVars>>

\* The process has ended; the next invocation starts with the file and the
\* keyring as this one left them.
NoCount == [reads |-> 0, writes |-> 0, transport |-> 0, reports |-> 0]
NextInvocation ==
    /\ pc = "done"
    /\ inv < MaxInvocations
    /\ inv' = inv + 1
    /\ pc' = "cli"
    /\ cmd' = NoCommand
    /\ req' = NoRequest
    /\ count' = NoCount
    /\ outcome' = ""
    /\ push' = NoPush
    /\ UNCHANGED <<file, writable, keyring, lastLoad, yamlVars>>

\* ------------------------------------------------------------------- init
\* Config files a user may have: any subset of url, user, token, password.
FileValues(k) ==
    IF k = "url" THEN {"", "https://a"}
    ELSE IF k = "user" THEN Users
    ELSE IF k = "token" THEN Tokens
    ELSE Passwords
FileKeys == {"url", "user", "token", "password"}
FileDicts ==
    UNION { {d \in [K -> UNION {FileValues(k) : k \in FileKeys}] : \A k \in K : d[k] \in FileValues(k)} :
            K \in SUBSET FileKeys }
Files == {NoFile} \cup {FileOf(d) : d \in FileDicts}

InitCli ==
    /\ file \in Files
    /\ writable \in BOOLEAN
    /\ keyring \in [Users -> Passwords \cup {None}]
    /\ pc = "cli"
    /\ inv = 1
    /\ cmd = NoCommand
    /\ req = NoRequest
    /\ lastLoad = NoLoad
    /\ count = NoCount
    /\ outcome = ""
    /\ push = NoPush

Init ==
    /\ InitCli
    /\ yamlDoc = {}
    /\ yamlOut = <<>>
    /\ yamlDone = FALSE
    /\ yamlVal = EmptyDict
    /\ yamlData = EmptyDict
    /\ yamlText = EmptyDict
    /\ yamlLoaded = FALSE
    /\ yamlBack = EmptyDict

Next ==
    \/ cli
    \/ create_alert_definition
    \/ update_alert_definition
    \/ update
    \/ status
    \/ RequestAttempt
    \/ Finish
    \/ NextInvocation

Spec == Init /\ [][Next]_vars

\* The CLI running "entities push": one invocation, from the same starts.
NextPush ==
    \/ cli
    \/ push_entity
    \/ PushNext
    \/ RequestAttempt
    \/ PushResult

SpecPush == Init /\ [][NextPush]_vars

\* ------------------------------------------------------------------- YAML
\* Keys of YAML documents are Python strings, here sequences of code points.
K_id == <<105, 100>>
K_check_definition_id == <<99, 104, 101, 99, 107, 95, 100, 101, 102, 105, 110, 105, 116, 105, 111, 110, 95, 105, 100>>
K_type == <<116, 121, 112, 101>>
K_name == <<110, 97, 109, 101>>
K_team == <<116, 101, 97, 109>>
K_owning_team == <<111, 119, 110, 105, 110, 103, 95, 116, 101, 97, 109>>
K_responsible_team == <<114, 101, 115, 112, 111, 110, 115, 105, 98, 108, 101, 95, 116, 101, 97, 109>>
K_description == <<100, 101, 115, 99, 114, 105, 112, 116, 105, 111, 110>>
K_condition == <<99, 111, 110, 100, 105, 116, 105, 111, 110>>
K_command == <<99, 111, 109, 109, 97, 110, 100>>
K_interval == <<105, 110, 116, 101, 114, 118, 97, 108>>
K_entities == <<101, 110, 116, 105, 116, 105, 101, 115>>
K_entities_exclude == <<101, 110, 116, 105, 116, 105, 101, 115, 95, 101, 120, 99, 108, 117, 100, 101>>
K_status == <<115, 116, 97, 116, 117, 115>>
K_last_modified_by == <<108, 97, 115, 116, 95, 109, 111, 100, 105, 102, 105, 101, 100, 95, 98, 121>>
K_tags == <<116, 97, 103, 115>>
K_priority == <<112, 114, 105, 111, 114, 105, 116, 121>>
K_Tags == <<84, 97, 103, 115>>
K_empty == <<>>
K_tab == <<9>>
K_nul == <<0>>

\* FIELD_ORDER, and FIELD_SORT_INDEX = {k: chr(i) for i, k in enumerate(FIELD_ORDER)}
FIELD_ORDER ==
    <<K_id, K_check_definition_id, K_type, K_name, K_team, K_owning_team, K_responsible_team,
      K_description, K_condition, K_command, K_interval, K_entities, K_entities_exclude,
      K_status, K_last_modified_by>>
chr(i) == <<i>>
Listed(k) == \E i \in 1..Len(FIELD_ORDER) : FIELD_ORDER[i] = k
IndexOf(k) == CHOOSE i \in 1..Len(FIELD_ORDER) : FIELD_ORDER[i] = k
FIELD_SORT_INDEX(k) == chr(IndexOf(k) - 1)

\* Python's < on strings: by code point, a proper prefix being smaller.
LexLess(a, b) ==
    \E i \in 1..Len(b) :
        /\ \A j \in 1..(i - 1) : j <= Len(a) /\ a[j] = b[j]
        /\ (i > Len(a) \/ a[i] < b[i])

\* The sort key of CustomDumper.represent_mapping:
\* FIELD_SORT_INDEX.get(x[0].value, x[0].value)
sort_key(k) == IF Listed(k) THEN FIELD_SORT_INDEX(k) ELSE k

\* sorted(s, key=sort_key): a stable sort, so an element's place is the number
\* of elements with a smaller key, or with an equal key and an earlier place.
sorted(s) ==
    LET before(j, i) == \/ LexLess(sort_key(s[j]), sort_key(s[i]))
                        \/ (sort_key(s[j]) = sort_key(s[i]) /\ j < i)
        rank(i) == 1 + Cardinality({j \in 1..Len(s) : before(j, i)})
    IN  [p \in 1..Len(s) |-> s[CHOOSE i \in 1..Len(s) : rank(i) = p]]

\* yaml.Dumper.represent_mapping lists the items of the mapping sorted by key.
base_represent_mapping(keys) ==
    [p \in 1..Cardinality(keys) |->
        CHOOSE k \in keys : Cardinality({j \in keys : LexLess(j, k)}) = p - 1]

\* CustomDumper.represent_mapping: the base class's nodes, sorted by sort_key.
represent_mapping(keys) == sorted(base_represent_mapping(keys))

\* ------------------------------------------------------------ YAML values
\* String values are sequences of code points too.  The code points that
\* matter: line feed, space, and the characters of YAML's scalar syntax.
LF == 10
SPACE == 32
DQUOTE == 34
SQUOTE == 39
BACKSLASH == 92
\* What str.strip() and str.rstrip() take for whitespace (the ASCII part).
Whitespace == {9, 10, 11, 12, 13, 28, 29, 30, 31, 32}

\* fields to dump as literal blocks
LITERAL_FIELDS == {K_command, K_condition, K_description}

Max(S) == CHOOSE x \in S : \A y \in S : y <= x
Min(S) == CHOOSE x \in S : \A y \in S : x <= y
Drop(t, n) == SubSeq(t, n + 1, Len(t))
Take(t, n) == SubSeq(t, 1, n)
\* The length of the run of characters of the set C at the start of t.
Run(t, C) == Min({i \in 0..Len(t) : i = Len(t) \/ t[i + 1] \notin C})
Repeat(c, n) == [i \in 1..n |-> c]

\* text.rstrip(), text.lstrip(), text.strip()
rstrip(t) == Take(t, Max({0} \cup {i \in 1..Len(t) : t[i] \notin Whitespace}))
lstrip(t) == Drop(t, Run(t, Whitespace))
strip(t) == lstrip(rstrip(t))

\* text.split(sep): the pieces between the separators, one more than there
\* are separators.
split(t, sep) ==
    LET at == {i \in 1..Len(t) : t[i] = sep}
        nth(j) == IF j = 0 THEN 0
                  ELSE IF j > Cardinality(at) THEN Len(t) + 1
                  ELSE CHOOSE i \in at : Cardinality({b \in at : b < i}) = j - 1
    IN  [j \in 1..(Cardinality(at) + 1) |-> SubSeq(t, nth(j - 1) + 1, nth(j) - 1)]

\* sep.join(parts)
RECURSIVE join(_, _)
join(parts, sep) ==
    IF parts = <<>> THEN <<>>
    ELSE IF Len(parts) = 1 THEN parts[1]
    ELSE parts[1] \o <<sep>> \o join(Tail(parts), sep)

\* '\n'.join([line.rstrip() for line in text.strip().split('\n')])
remove_trailing_whitespace(text) ==
    LET lines == split(strip(text), LF)
    IN  join([j \in 1..Len(lines) |-> rstrip(lines[j])], LF)

\* What dump_yaml's loop leaves in data[key]: a literal_unicode for a literal
\* field, the str it found for any other key.
literal_unicode(text) == [literal |-> TRUE, text |-> text]
str(text) == [literal |-> FALSE, text |-> text]

\* yaml.dump's emitter, for one scalar of a block mapping of str values.
\* analyze_scalar: which styles the text allows.  The indicator characters
\* (#, :, -, quotes and so on) and the resolver's non-str words (null, true,
\* 12) are left out, no value of the model having them: a str resolves to str
\* as a plain scalar unless it is empty.
analyze_scalar(t) ==
    LET n == Len(t)
        leading == n > 0 /\ t[1] \in {SPACE, LF}
        trailing_space == n > 0 /\ t[n] = SPACE
        trailing_break == n > 0 /\ t[n] = LF
        break_space == \E i \in 1..(n - 1) : t[i] = LF /\ t[i + 1] = SPACE
        space_break == \E i \in 1..(n - 1) : t[i] = SPACE /\ t[i + 1] = LF
        line_breaks == \E i \in 1..n : t[i] = LF
        special == \E i \in 1..n : t[i] # LF /\ (t[i] < 32 \/ t[i] > 126)
    IN  [allow_block_plain |-> ~(leading \/ trailing_space \/ trailing_break \/ break_space
                                  \/ space_break \/ special \/ line_breaks),
         allow_single_quoted |-> ~(break_space \/ space_break \/ special),
         allow_block |-> n > 0 /\ ~(trailing_space \/ space_break \/ special)]

\* choose_scalar_style: plain for an implicit str, the block style asked for
\* by literal_unicode_representer (style='|') if the text allows it, single
\* quotes for a str, double quotes for the rest.
choose_scalar_style(v) ==
    LET a == analyze_scalar(v.text)
    IN  IF ~v.literal /\ v.text # <<>> /\ a.allow_block_plain THEN ""
        ELSE IF v.literal /\ a.allow_block THEN "|"
        ELSE IF ~v.literal /\ a.allow_single_quoted THEN "'"
        ELSE "\""

\* The indentation of the continuation lines of a top-level mapping's value.
best_indent == 2
Indent == Repeat(SPACE, best_indent)

\* determine_block_hints: the indentation indicator for a text that starts with
\* a space or a break, '-' for one that does not end with a break, '+' for one
\* that ends with more than one.
determine_block_hints(t) ==
    IF t = <<>> THEN <<>>
    ELSE (IF t[1] \in {SPACE, LF} THEN <<48 + best_indent>> ELSE <<>>)
         \o (IF t[Len(t)] # LF THEN <<45>>
             ELSE IF Len(t) = 1 \/ t[Len(t) - 1] = LF THEN <<43>>
             ELSE <<>>)

\* write_literal: '|', the hints, and the lines of the text, each one that is
\* not empty behind the indentation; a last line without a break gets one.
write_literal(t) ==
    LET lines == split(t, LF)
        out == [j \in 1..Len(lines) |-> IF lines[j] = <<>> THEN <<>> ELSE Indent \o lines[j]]
    IN  <<124>> \o determine_block_hints(t) \o <<LF>> \o join(out, LF)
        \o (IF t = <<>> \/ t[Len(t)] = LF THEN <<>> ELSE <<LF>>)

\* write_single_quoted: a quote is doubled; a run of breaks is written with
\* one break more, and the indentation after it.
RECURSIVE write_single_quoted_body(_)
write_single_quoted_body(t) ==
    IF t = <<>> THEN <<>>
    ELSE IF t[1] = SQUOTE THEN <<SQUOTE, SQUOTE>> \o write_single_quoted_body(Tail(t))
    ELSE IF t[1] = LF
    THEN LET k == Run(t, {LF})
         IN  Repeat(LF, k + 1) \o Indent \o write_single_quoted_body(Drop(t, k))
    ELSE <<t[1]>> \o write_single_quoted_body(Tail(t))
write_single_quoted(t) == <<SQUOTE>> \o write_single_quoted_body(t) \o <<SQUOTE>>

\* write_double_quoted: break, backslash and double quote are escaped (texts
\* this short are never folded).
RECURSIVE write_double_quoted_body(_)
write_double_quoted_body(t) ==
    IF t = <<>> THEN <<>>
    ELSE (IF t[1] = LF THEN <<BACKSLASH, 110>>
          ELSE IF t[1] \in {BACKSLASH, DQUOTE} THEN <<BACKSLASH, t[1]>>
          ELSE <<t[1]>>)
         \o write_double_quoted_body(Tail(t))
write_double_quoted(t) == <<DQUOTE>> \o write_double_quoted_body(t) \o <<DQUOTE>>

\* process_scalar: the text written for one value.
process_scalar(v) ==
    LET style == choose_scalar_style(v)
    IN  IF style = "" THEN v.text
        ELSE IF style = "|" THEN write_literal(v.text)
        ELSE IF style = "'" THEN write_single_quoted(v.text)
        ELSE write_double_quoted(v.text)

\* yaml.safe_load's scanner, for one scalar.
\* scan_block_scalar: the header's indentation indicator and chomping
\* indicator, then the lines without their indentation; strip ('-') drops the
\* breaks at the end, clip keeps one, keep ('+') keeps them all.
scan_block_scalar(b) ==
    LET h == Run(b, {c \in 0..255 : c # LF})
        header == Take(b, h)
        rest == Drop(b, h + 1)
        pieces == split(rest, LF)
        lines == SubSeq(pieces, 1, Len(pieces) - 1)
        filled == {j \in 1..Len(lines) : lines[j] \notin {Repeat(SPACE, n) : n \in 0..Len(lines[j])}}
        digits == {i \in 2..Len(header) : header[i] \in 49..57}
        indent == IF digits # {} THEN header[Min(digits)] - 48
                  ELSE IF filled = {} THEN 0
                  ELSE Run(lines[Min(filled)], {SPACE})
        last == IF filled = {} THEN 0 ELSE Max(filled)
        text == join([j \in 1..last |-> Drop(lines[j], Min({indent, Len(lines[j])}))], LF)
        chomp == IF \E i \in 2..Len(header) : header[i] = 45 THEN "strip"
                 ELSE IF \E i \in 2..Len(header) : header[i] = 43 THEN "keep"
                 ELSE "clip"
    IN  IF chomp = "strip" THEN text
        ELSE IF chomp = "keep" THEN text \o Repeat(LF, Len(lines) - last + (IF last > 0 THEN 1 ELSE 0))
        ELSE IF last > 0 THEN text \o <<LF>> ELSE text

\* scan_flow_scalar for single quotes: '' is a quote; spaces before a break
\* and the indentation after it are dropped, one break is a space and n
\* breaks are n - 1.
RECURSIVE scan_single_quoted_body(_)
scan_single_quoted_body(b) ==
    IF b = <<>> THEN <<>>
    ELSE IF b[1] = SQUOTE THEN <<SQUOTE>> \o scan_single_quoted_body(Drop(b, 2))
    ELSE IF b[1] \in {SPACE, LF}
    THEN LET sp == Run(b, {SPACE})
             br == Run(Drop(b, sp), {LF})
             after == Drop(b, sp + br)
         IN  IF br = 0 THEN Take(b, sp) \o scan_single_quoted_body(after)
             ELSE (IF br = 1 THEN <<SPACE>> ELSE Repeat(LF, br - 1))
                  \o scan_single_quoted_body(Drop(after, Run(after, {SPACE})))
    ELSE <<b[1]>> \o scan_single_quoted_body(Tail(b))

\* scan_flow_scalar for double quotes: the escapes \n, \\ and \".
RECURSIVE scan_double_quoted_body(_)
scan_double_quoted_body(b) ==
    IF b = <<>> THEN <<>>
    ELSE IF b[1] = BACKSLASH /\ Len(b) > 1
    THEN <<IF b[2] = 110 THEN LF ELSE b[2]>> \o scan_double_quoted_body(Drop(b, 2))
    ELSE <<b[1]>> \o scan_double_quoted_body(Tail(b))

\* The str a scalar's text is read as: block, quoted or plain by its first
\* character.
scan_scalar(b) ==
    IF b = <<>> THEN <<>>
    ELSE IF b[1] = 124 THEN scan_block_scalar(b)
    ELSE IF b[1] = SQUOTE THEN scan_single_quoted_body(SubSeq(b, 2, Len(b) - 1))
    ELSE IF b[1] = DQUOTE THEN scan_double_quoted_body(SubSeq(b, 2, Len(b) - 1))
    ELSE b

\* The values of the model's documents: strings of space, break and 'a'.
Alphabet == {SPACE, LF, 97}
Strings == UNION { [1..n -> Alphabet] : n \in 0..MaxLen }

\* Top-level keys the model hands to dump_yaml: listed ones, ordinary unlisted
\* ones, and unlisted ones that are empty or start with a control character.
KeyPool ==
    {K_id, K_check_definition_id, K_name, K_team, K_command, K_status, K_last_modified_by,
     K_tags, K_priority, K_Tags, K_empty, K_tab, K_nul}
YamlDocs == {ks \in SUBSET KeyPool : Cardinality(ks) <= MaxKeys}

\* The loop of dump_yaml: data[key] becomes
\* literal_unicode(remove_trailing_whitespace(val)) for the literal fields.
literal_fields(data) ==
    [k \in DOMAIN data |->
        IF k \in LITERAL_FIELDS
        THEN literal_unicode(remove_trailing_whitespace(data[k]))
        ELSE str(data[k])]

\* dump_yaml(data): the loop over the literal fields, then yaml.dump: the order
\* in which the top-level keys are emitted and the text written for each value.
dump_yaml ==
    /\ ~yamlDone
    /\ yamlData' = literal_fields(yamlVal)
    /\ yamlOut' = represent_mapping(yamlDoc)
    /\ yamlText' = [k \in yamlDoc |-> process_scalar(literal_fields(yamlVal)[k])]
    /\ yamlDone' = TRUE
    /\ UNCHANGED <<yamlDoc, yamlVal, yamlLoaded, yamlBack>>
    /\ UNCHANGED cliVars

\* yaml.safe_load of the text dump_yaml gave (the file is edited and handed
\* to an update command): every value is read back from its text.
safe_load ==
    /\ yamlDone
    /\ ~yamlLoaded
    /\ yamlBack' = [k \in DOMAIN yamlText |-> scan_scalar(yamlText[k])]
    /\ yamlLoaded' = TRUE
    /\ UNCHANGED <<yamlDoc, yamlOut, yamlDone, yamlVal, yamlData, yamlText>>
    /\ UNCHANGED cliVars

InitYaml ==
    /\ file = NoFile
    /\ writable = TRUE
    /\ keyring = [u \in Users |-> None]
    /\ pc = "cli"
    /\ inv = 1
    /\ cmd = NoCommand
    /\ req = NoRequest
    /\ lastLoad = NoLoad
    /\ count = NoCount
    /\ outcome = ""
    /\ push = NoPush
    /\ yamlDoc \in YamlDocs
    /\ yamlVal = [k \in yamlDoc |-> <<97>>]
    /\ yamlOut = <<>>
    /\ yamlDone = FALSE
    /\ yamlData = EmptyDict
    /\ yamlText = EmptyDict
    /\ yamlLoaded = FALSE
    /\ yamlBack = EmptyDict

NextYaml == dump_yaml

SpecYaml == InitYaml /\ [][NextYaml]_vars

\* dump_yaml and safe_load over documents with a literal field and another
\* one, with every string up to MaxLen for their values.
LiteralKeyPool == {K_description, K_name}
LiteralDocs == UNION { [ks -> Strings] : ks \in SUBSET LiteralKeyPool }

InitLiteral ==
    /\ InitCli
    /\ file = NoFile
    /\ writable = TRUE
    /\ keyring = [u \in Users |-> None]
    /\ yamlVal \in LiteralDocs
    /\ yamlDoc = DOMAIN yamlVal
    /\ yamlOut = <<>>
    /\ yamlDone = FALSE
    /\ yamlData = EmptyDict
    /\ yamlText = EmptyDict
    /\ yamlLoaded = FALSE
    /\ yamlBack = EmptyDict

NextLiteral ==
    \/ dump_yaml
    \/ safe_load

SpecLiteral == InitLiteral /\ [][NextLiteral]_vars

\* ----------------------------------------------------------------- claims
Is2xx(s) == 200 <= s /\ s < 300
Last(q) == q[Len(q)]
HasUrl(d) == Has(d, "url") /\ d["url"] # ""

\* C1: one request() call sends at most two requests and re-prompts at most
\* once, whatever the server answers: a second 401 ends the call.
C1_AtMostOneRetry ==
    /\ Len(req.sent) <= 2
    /\ req.reprompts <= 1
    /\ (Len(req.statuses) = 2 /\ req.statuses[2] = 401) => req.state # "running"

\* C2: with a user in the config file, a 401 followed by a 200 means two
\* credential resolutions, two transport calls with the same method and URL,
\* and the 200 response returned to the caller.
C2_RetryThenOk ==
    (req.cfg.exists /\ Has(req.cfg.data, "user") /\ req.statuses = <<401, 200>>)
    => /\ req.resolutions = 2
       /\ Len(req.sent) = 2
       /\ req.sent[1].method = req.sent[2].method
       /\ req.sent[1].url = req.sent[2].url
       /\ req.sent[1].path = req.sent[2].path
       /\ req.sent[2].url = req.cfg.data["url"]
       /\ req.state = "returned"
       /\ req.status = 200
C2_Witness ==
    /\ req.cfg.exists /\ Has(req.cfg.data, "user") /\ req.statuses = <<401, 200>>
    /\ req.state = "returned"
    /\ pc = "finish"

\* C3 as stated: every answer that is neither 2xx nor 401 ends the call with
\* an HTTP error carrying that status, with nothing sent after it.
C3_NonSuccessFails ==
    \A i \in 1..Len(req.statuses) :
        LET s == req.statuses[i]
        IN  (s # 401 /\ ~Is2xx(s))
            => /\ i = Len(req.statuses)
               /\ Len(req.sent) = i
               /\ req.reprompts = i - 1
               /\ req.state = "http_error"
               /\ req.status = s
\* C3 as amended: every 4xx/5xx answer other than 401 ends the call with an
\* HTTP error carrying that status, with no retry and no re-prompt after it;
\* a 1xx or 3xx answer is returned to the caller like a 2xx one.
C3_ErrorStatusFails ==
    \A i \in 1..Len(req.statuses) :
        LET s == req.statuses[i]
        IN  (s # 401)
            => /\ i = Len(req.statuses)
               /\ Len(req.sent) = i
               /\ req.reprompts = i - 1
               /\ req.status = s
               /\ req.state = IF 400 <= s /\ s < 600 THEN "http_error" ELSE "returned"
C3_Witness ==
    /\ req.statuses = <<403>>
    /\ req.state = "http_error"
    /\ req.status = 403
    /\ Len(req.sent) = 1

\* C4: when the config file has a token, resolving the credentials neither
\* reads nor writes the keyring nor prompts, and the request carries that
\* token as bearer token.
C4_TokenSkipsKeyring ==
    (lastLoad.n > 0 /\ lastLoad.ok /\ lastLoad.pre.exists /\ Has(lastLoad.pre.data, "token"))
    => /\ lastLoad.krReads = 0
       /\ lastLoad.krWrites = 0
       /\ lastLoad.prompts = 0
       /\ (pc = "finish" /\ req.sent # <<>>)
            => Last(req.sent).auth = <<"Bearer", lastLoad.pre.data["token"]>>

\* The config file of the latest load has a non-empty url and neither token
\* nor user.
NoCredentialLoad ==
    /\ lastLoad.n > 0
    /\ lastLoad.pre.exists
    /\ HasUrl(lastLoad.pre.data)
    /\ ~Has(lastLoad.pre.data, "token")
    /\ ~Has(lastLoad.pre.data, "user")

\* C5 as stated: a config with a url and neither token nor user makes the
\* resolution fail, with no credential taken from anywhere else.
C5_NoCredentialFails ==
    NoCredentialLoad => (~lastLoad.ok /\ lastLoad.zign = 0)
\* C5 as amended: such a config makes validate_config ask zign for a token;
\* the resolution fails only if zign does, and otherwise returns the record
\* with zign's token, which the request then carries; the keyring is not used.
C5_ZignFallback ==
    NoCredentialLoad
    => /\ lastLoad.zign = 1
       /\ lastLoad.krReads = 0 /\ lastLoad.krWrites = 0 /\ lastLoad.prompts = 0
       /\ lastLoad.ok <=> (lastLoad.answers.zign # ZignError)
       /\ lastLoad.ok => /\ Has(lastLoad.data, "token")
                         /\ lastLoad.data["token"] = lastLoad.answers.zign
                         /\ ~Has(lastLoad.data, "user")
       /\ (lastLoad.ok /\ pc = "finish" /\ req.sent # <<>>)
            => Last(req.sent).auth = <<"Bearer", lastLoad.answers.zign>>
C5_Witness ==
    /\ NoCredentialLoad
    /\ lastLoad.ok
    /\ pc = "finish"
    /\ req.sent # <<>>
    /\ Last(req.sent).auth = <<"Bearer", ZignToken>>

\* The config file of the latest load had a user and a password.
MigratingLoad ==
    /\ lastLoad.n > 0
    /\ lastLoad.pre.exists
    /\ Has(lastLoad.pre.data, "user")
    /\ Has(lastLoad.pre.data, "password")

C7_ReadOnceWriteOnce ==
    /\ count.reads <= 1
    /\ count.writes <= 1
    /\ lastLoad.writes = 1 => (~lastLoad.pre.exists \/ Has(lastLoad.pre.data, "password"))
\* C7 as amended: in one invocation the config file is written at most once,
\* and only to create it or to migrate a password out of it; it is read by
\* cli() and again by every get_config_data() call that finds it.
C7_WriteOnce ==
    /\ count.writes <= 1
    /\ lastLoad.writes = 1 => (~lastLoad.pre.exists \/ Has(lastLoad.pre.data, "password"))
    /\ lastLoad.n > 0 => lastLoad.reads = (IF lastLoad.pre.exists THEN 1 ELSE 0)
C7_Witness ==
    /\ pc = "done"
    /\ cmd.name = "create_alert_definition"
    /\ outcome = "ok"
    /\ count.writes = 1
    /\ count.reads = 4
    /\ count.transport = 1

\* C8: a successful resolution returns a config with a token, or with a user
\* and a password, and never with both.
C8_ExactlyOneCredential ==
    (lastLoad.n > 0 /\ lastLoad.ok)
    => (Has(lastLoad.data, "token")
        # (Has(lastLoad.data, "user") /\ Has(lastLoad.data, "password")
           /\ lastLoad.data["password"] # None))

\* The document of the current command lacks a field the command requires.
DocIncomplete ==
    \/ cmd.name = "create_alert_definition" /\ ~Has(cmd.doc, "check_definition_id")
    \/ cmd.name = "update_alert_definition"
         /\ (~Has(cmd.doc, "id") \/ ~Has(cmd.doc, "check_definition_id"))
    \/ cmd.name = "update"
         /\ ((~Has(cmd.doc, "owning_team")) \/ cmd.doc["owning_team"] = "")

\* C9: a create/update command given a document without a required field
\* reports it and ends without any request having been sent; nothing is
\* reported for a complete document.
C9_NoRequestOnMissingField ==
    /\ DocIncomplete
       => /\ pc = "done"
          /\ count.transport = 0
          /\ req.state = "none"
          /\ outcome \in {"reported", "exception"}
          /\ (outcome = "reported") <=> (count.reports = 1)
          /\ (outcome = "reported") <=> lastLoad.ok
    /\ count.reports > 0 => DocIncomplete
C9_Witness ==
    /\ cmd.name = "update"
    /\ Has(cmd.doc, "owning_team")
    /\ cmd.doc["owning_team"] = ""
    /\ Has(cmd.doc, "id")
    /\ outcome = "reported"
    /\ count.reports = 1
    /\ count.transport = 0

C13_UnwritableLoadFails ==
    /\ (lastLoad.n > 0 /\ ~lastLoad.pre.exists /\ ~lastLoad.canWrite)
       => /\ ~lastLoad.ok
          /\ pc = "finish" => req.sent = <<>>
    /\ (lastLoad.n > 0 /\ ~lastLoad.pre.exists /\ lastLoad.canWrite)
       => /\ lastLoad.ok
          /\ lastLoad.data["url"] = lastLoad.answers.url
          /\ lastLoad.data["user"] = lastLoad.answers.user
          /\ lastLoad.post = FileOf(Del(lastLoad.data, "password"))

\* C14: after every 401, with basic auth or a bearer token, the user is
\* prompted for a password, the keyring entry of the configured user becomes
\* the entered password, and the retry carries the entered password.
C14_RepromptAndRetry ==
    \A i \in 1..Len(req.statuses) :
        (req.statuses[i] = 401)
        => /\ Len(req.entered) >= i
           /\ req.state # "exception"
           /\ (i = Len(req.statuses) /\ pc = "request")
                => \E u \in Users : keyring[u] = req.entered[i]
           /\ (i < Len(req.sent))
                => \E u \in Users : req.sent[i + 1].auth = <<"Basic", u, req.entered[i]>>

\* C15: "entities push" over n entities makes one put per entity, in list
\* order, for all n; a failure at entity i is reported for entity i and the
\* command does not end with an exception.
C15_PushAttemptsAll ==
    /\ outcome # "exception"
    /\ \A j \in 1..Len(push.puts) : push.puts[j] = j
    /\ \A j \in 1..Len(push.reports) : push.reports[j][1] = j
    /\ (pc = "done" /\ cmd.name = "push_entity")
       => /\ Len(push.puts) = Len(push.entities)
          /\ Len(push.reports) = Len(push.entities)

\* The text with the whitespace at the end of every line and at the end of
\* the whole value removed, and nothing else.
TrailingRemoved(t) ==
    LET lines == split(t, LF)
    IN  rstrip(join([j \in 1..Len(lines) |-> rstrip(lines[j])], LF))

\* C12: the value dump_yaml renders for a literal field is the input with
\* trailing whitespace removed from every line and from the end of the value
\* and nothing else changed; the value of any other key is left untouched.
C12_OnlyTrailingRemoved ==
    yamlDone =>
        \A k \in yamlDoc :
            /\ k \in LITERAL_FIELDS => yamlData[k].text = TrailingRemoved(yamlVal[k])
            /\ k \notin LITERAL_FIELDS => yamlData[k] = str(yamlVal[k])

\* C11: for a document whose literal-field values have no trailing
\* whitespace on any line or at the end, reading back the text dump_yaml
\* gives yields the document: the same keys and the same values.
C11_RoundTrip ==
    (/\ yamlLoaded
     /\ \A k \in yamlDoc \cap LITERAL_FIELDS : TrailingRemoved(yamlVal[k]) = yamlVal[k])
    => yamlBack = yamlVal

====
